---- MODULE Spec2Model ----
(***************************************************************************)
(* A model of the bayesian classifier of classifier/classifier.go and of   *)
(* the word filter of util (Segmenter.Segment, filterWord).                *)
(*                                                                         *)
(* Strings are sequences of one-character strings, so that TrimSpace,      *)
(* Split and the segmenter are computed character by character.  float64   *)
(* values are exact non-negative rationals <<n, d>>; a zero denominator    *)
(* encodes the two IEEE values a division by zero produces here:           *)
(* <<0, 0>> is NaN and <<1, 0>> is +Inf.  The counts held in the two maps  *)
(* are small whole numbers, which float64 holds exactly.                   *)
(***************************************************************************)
EXTENDS Integers, Sequences, FiniteSets, TLC

VARIABLES
    Words,      \* data.Words: term -> (category -> count); a Go map, keys may be absent
    Categorys,  \* data.Categorys: category -> count
    resp,       \* the call that has just returned and its result, NoResp when none
    ncalls,     \* history: per trimmed category, the accepted training calls so far
    recorded,   \* history: the terms some training call has produced
    tasks,      \* per request goroutine: the position of its Training call
    issued,     \* history: the accepted Training calls the goroutines have begun
    saver,      \* the autosave goroutine of NewClassifier: "sleep" or "exited"
    handed,     \* the snapshots Export has handed to storage.Save
    alive       \* the process is running

vars == <<Words, Categorys, resp, ncalls, recorded, tasks, issued, saver, handed, alive>>

\* ------------------------------------------------------------------ bounds

\* Training calls accepted in one run of the sequential interface.
MaxCalls == 3
\* Training calls begun in one run of the concurrent interface.
MaxConcCalls == 2
\* Snapshots handed to storage in one run.
MaxExports == 2

\* ------------------------------------------------------------------ maps

EmptyMap == << >>

\* m[k] of a Go map of float64: an absent key reads as 0.
Get(m, k) == IF k \in DOMAIN m THEN m[k] ELSE 0

\* m[k] = v
Put(m, k, v) == [x \in (DOMAIN m) \cup {k} |-> IF x = k THEN v ELSE m[x]]

\* The count of term t under category c in the table W, absent keys reading as 0.
Count(W, t, c) == IF t \in DOMAIN W THEN Get(W[t], c) ELSE 0

\* ------------------------------------------------------------------ float64

NaN == <<0, 0>>
Inf == <<1, 0>>

IsNum(x) == x[2] > 0

RECURSIVE Gcd(_, _)
Gcd(a, b) == IF b = 0 THEN a ELSE Gcd(b, a % b)

Norm(n, d) ==
    IF d = 0 THEN (IF n = 0 THEN NaN ELSE Inf)
    ELSE LET g == Gcd(n, d) IN <<n \div g, d \div g>>

Num(n) == <<n, 1>>

FAdd(x, y) ==
    IF x = NaN \/ y = NaN THEN NaN
    ELSE IF x = Inf \/ y = Inf THEN Inf
    ELSE Norm(x[1] * y[2] + y[1] * x[2], x[2] * y[2])

FMul(x, y) ==
    IF x = NaN \/ y = NaN THEN NaN
    ELSE IF x = Inf \/ y = Inf
         THEN (IF x[1] = 0 \/ y[1] = 0 THEN NaN ELSE Inf)
    ELSE Norm(x[1] * y[1], x[2] * y[2])

FDiv(x, y) ==
    IF x = NaN \/ y = NaN THEN NaN
    ELSE IF y = Inf THEN (IF x = Inf THEN NaN ELSE Num(0))
    ELSE IF x = Inf THEN Inf
    ELSE Norm(x[1] * y[2], x[2] * y[1])

\* x <= y and x < y on numbers (neither NaN nor Inf).
FLeq(x, y) == x[1] * y[2] <= y[1] * x[2]
FLess(x, y) == x[1] * y[2] < y[1] * x[2]

\* ------------------------------------------------------------------ strings

IsSpace(c) == c \in {" ", "\t", "\n"}

RECURSIVE TrimLeft(_)
TrimLeft(s) == IF s /= << >> /\ IsSpace(Head(s)) THEN TrimLeft(Tail(s)) ELSE s

RECURSIVE TrimRight(_)
TrimRight(s) ==
    IF s /= << >> /\ IsSpace(s[Len(s)]) THEN TrimRight(SubSeq(s, 1, Len(s) - 1)) ELSE s

\* strings.TrimSpace
TrimSpace(s) == TrimRight(TrimLeft(s))

\* strings.Split(s, "/"): the pieces between the separators, empty ones included.
RECURSIVE SplitFrom(_, _, _)
SplitFrom(s, cur, out) ==
    IF s = << >> THEN Append(out, cur)
    ELSE IF Head(s) = "/" THEN SplitFrom(Tail(s), << >>, Append(out, cur))
    ELSE SplitFrom(Tail(s), Append(cur, Head(s)), out)

SplitSlash(s) == SplitFrom(s, << >>, << >>)

\* gojieba's CutForSearch on text without dictionary words: each maximal run of
\* letters is one word, every other character (a blank, a slash) a word of its own.
IsLetter(c) == ~IsSpace(c) /\ c /= "/"

RECURSIVE CutFrom(_, _, _)
CutFrom(s, cur, out) ==
    LET flush == IF cur = << >> THEN out ELSE Append(out, cur) IN
    IF s = << >> THEN flush
    ELSE IF IsLetter(Head(s)) THEN CutFrom(Tail(s), Append(cur, Head(s)), out)
    ELSE CutFrom(Tail(s), << >>, Append(flush, <<Head(s)>>))

CutForSearch(text) == CutFrom(text, << >>, << >>)

\* strings.Count(s, ""): the number of runes plus one.
CountEmpty(s) == Len(s) + 1

RECURSIVE filterWord(_)
filterWord(ws) ==
    IF ws = << >> THEN << >>
    ELSE IF CountEmpty(TrimSpace(Head(ws))) <= 2 THEN filterWord(Tail(ws))
    ELSE <<Head(ws)>> \o filterWord(Tail(ws))

Segment(text) == filterWord(CutForSearch(text))

SeqSet(s) == {s[i] : i \in DOMAIN s}


\* ------------------------------------------------------------------ training

\* The loop without the fwords test of lines 106-108: a repeated word counts again.
RECURSIVE UpdateWordsNoDedup(_, _, _, _)
UpdateWordsNoDedup(W, words, fwords, category) ==
    IF words = << >> THEN W
    ELSE LET word == Head(words)
             W1 == IF word \in DOMAIN W THEN W ELSE Put(W, word, EmptyMap)
             W2 == Put(W1, word, Put(W1[word], category, Get(W1[word], category) + 1))
         IN  UpdateWordsNoDedup(W2, Tail(words), fwords \cup {word}, category)

\* Training, lines 105-115 (TrainingwithSlash, lines 134-144): the loop over the
\* words of the document; fwords holds the words this document has counted.
RECURSIVE UpdateWords(_, _, _, _)
UpdateWords(W, words, fwords, category) ==
    IF words = << >> THEN W
    ELSE LET word == Head(words) IN
         IF word \in fwords THEN UpdateWords(W, Tail(words), fwords, category)
         ELSE LET W1 == IF word \in DOMAIN W THEN W ELSE Put(W, word, EmptyMap)
                  W2 == Put(W1, word, Put(W1[word], category, Get(W1[word], category) + 1))
              IN  UpdateWords(W2, Tail(words), fwords \cup {word}, category)

\* t.data.Categorys[category]++
UpdateCategorys(C, category) == Put(C, category, Get(C, category) + 1)

\* The guard with "and" for "or": only a call with both arguments empty is dropped.
RejectedBoth(doc, category) == doc = << >> /\ category = << >>

\* The guard of lines 96-99 (125-128), on the trimmed arguments.
Rejected(doc, category) == doc = << >> \/ category = << >>

\* Training counting the category only when the document has produced a word.
TrainingDataSkipEmpty(W, C, doc0, category0) ==
    LET doc == TrimSpace(doc0)
        category == TrimSpace(category0)
    IN  IF Rejected(doc, category) THEN <<W, C>>
        ELSE <<UpdateWords(W, Segment(doc), {}, category),
               IF Segment(doc) = << >> THEN C ELSE UpdateCategorys(C, category)>>

\* The two maps after Training(doc, category) has run alone on the maps W, C.
TrainingData(W, C, doc0, category0) ==
    LET doc == TrimSpace(doc0)
        category == TrimSpace(category0)
    IN  IF Rejected(doc, category) THEN <<W, C>>
        ELSE <<UpdateWords(W, Segment(doc), {}, category), UpdateCategorys(C, category)>>

\* TrainingwithSlash counting the category under its untrimmed name.
TrainingwithSlashDataRawCategory(W, C, doc0, category0) ==
    LET doc == TrimSpace(doc0)
        category == TrimSpace(category0)
    IN  IF Rejected(doc, category) THEN <<W, C>>
        ELSE <<UpdateWords(W, SplitSlash(doc), {}, category), UpdateCategorys(C, category0)>>

\* The two maps after TrainingwithSlash(doc, category) has run alone on W, C.
TrainingwithSlashData(W, C, doc0, category0) ==
    LET doc == TrimSpace(doc0)
        category == TrimSpace(category0)
    IN  IF Rejected(doc, category) THEN <<W, C>>
        ELSE <<UpdateWords(W, SplitSlash(doc), {}, category), UpdateCategorys(C, category)>>

\* ------------------------------------------------------------------ estimator

RECURSIVE SumOver(_, _)
SumOver(m, keys) ==
    IF keys = {} THEN 0
    ELSE LET k == CHOOSE x \in keys : TRUE IN m[k] + SumOver(m, keys \ {k})

wordProb(word, category) ==
    IF word \notin DOMAIN Words THEN Num(0)
    ELSE IF category \in DOMAIN Words[word]
         THEN FDiv(Num(Words[word][category]), Num(Get(Categorys, category)))
    ELSE Num(0)

wordWeightProb(word, category, weight, assumedprob) ==
    LET basicProb == wordProb(word, category)
        total == IF word \in DOMAIN Words
                 THEN Num(SumOver(Words[word], DOMAIN Words[word]))
                 ELSE Num(0)
    IN  FDiv(FAdd(FMul(weight, assumedprob), FMul(total, basicProb)), FAdd(weight, total))

\* The configuration the comment of lines 182-183 recommends.
defaultProb == <<1, 2>>
defaultWeight == <<1, 1>>

RECURSIVE ProdOver(_, _)
ProdOver(words, category) ==
    IF words = << >> THEN Num(1)
    ELSE FMul(ProdOver(SubSeq(words, 1, Len(words) - 1), category),
              wordWeightProb(words[Len(words)], category, defaultWeight, defaultProb))

\* docProb on the raw probabilities, without the weighting of wordWeightProb.
RECURSIVE ProdRaw(_, _)
ProdRaw(words, category) ==
    IF words = << >> THEN Num(1)
    ELSE FMul(ProdRaw(SubSeq(words, 1, Len(words) - 1), category),
              wordProb(words[Len(words)], category))

docProbRaw(doc, category) == ProdRaw(Segment(doc), category)

docProb(doc, category) == ProdOver(Segment(doc), category)

categoryNumTotal == Num(SumOver(Categorys, DOMAIN Categorys))

\* ------------------------------------------------------------------ scores

\* Scores: a list of <<label, probability>> items.  Top(n) is the list in descending
\* order of probability cut to n items; items of equal probability and the order in
\* which a range over a Go map appended the items may come out in any order.
TopN == 10

Min(a, b) == IF a < b THEN a ELSE b

Orderings(items) ==
    LET n == Cardinality(items) IN
    {s \in [1..n -> items] : \A i, j \in 1..n : i /= j => s[i] /= s[j]}

Descending(s) == \A i, j \in DOMAIN s : i < j => ~FLess(s[i][2], s[j][2])

Top(items, n) ==
    {SubSeq(s, 1, Min(n, Len(s))) : s \in {o \in Orderings(items) : Descending(o)}}

\* Score without the early return of lines 154-156.
ScoreListsNoCheck(word, category) ==
    IF category /= << >>
    THEN Top({<<category, wordWeightProb(word, category, defaultWeight, defaultProb)>>}, TopN)
    ELSE Top({<<c, wordWeightProb(word, c, defaultWeight, defaultProb)>> :
                 c \in (IF word \in DOMAIN Words THEN DOMAIN Words[word] ELSE {})}, TopN)

\* The lists Score(word, category) may return.
ScoreLists(word, category) ==
    IF word \notin DOMAIN Words THEN {<< >>}
    ELSE IF category /= << >>
         THEN Top({<<category, wordWeightProb(word, category, defaultWeight, defaultProb)>>}, TopN)
    ELSE Top({<<c, wordWeightProb(word, c, defaultWeight, defaultProb)>> : c \in DOMAIN Words[word]},
             TopN)

\* The lists Categorize(doc) may return.
CategorizeLists(doc) ==
    LET total == categoryNumTotal IN
    Top({<<cate, FDiv(FMul(docProb(doc, cate), Num(Categorys[cate])), total)>> :
            cate \in DOMAIN Categorys}, TopN)


\* ------------------------------------------------------------------ inputs

\* The documents and categories the calls are made with: empty and blank ones, a
\* repeated term, blanks to trim, single letters (which the segmenter drops).
Docs ==
    { << >>,
      <<" ">>,
      <<"a", "/", "b", "/", "a">>,
      <<"a", "b", " ", "a", "b">>,
      <<" ", "a", "b", " ", "c", "d", " ">>,
      <<"a", " ", "b">>,
      <<"c", "d">> }

Cats == { << >>, <<" ">>, <<"x">>, <<" ", "x">>, <<"y">> }

\* The terms the queries ask about: those a document can produce, and one none can.
Unseen == <<"z", "z">>

Terms ==
    UNION {SeqSet(Segment(TrimSpace(d))) \cup SeqSet(SplitSlash(TrimSpace(d))) : d \in Docs}
        \cup {Unseen}

TrimmedCats == {TrimSpace(c) : c \in Cats}

\* The categories Score is asked about: none, blank, trained or not, and one never used.
QueryCats == Cats \cup {<<"q">>}

\* The weights and assumed probabilities wordWeightProb is applied to.
Weights == {<<0, 1>>, <<1, 2>>, <<1, 1>>, <<2, 1>>}
Probs == {<<0, 1>>, <<1, 4>>, <<1, 2>>, <<1, 1>>}

\* ------------------------------------------------------------------ the sequential interface

NoResp == [op |-> "none"]

NoTask == [pc |-> "idle"]

Goroutines == {1, 2}

Accepted == SumOver(ncalls, DOMAIN ncalls)

\* The history a training call leaves: the accepted call is counted under its
\* trimmed category, and the terms of its document are noted.
Note(doc0, category0, words) ==
    LET doc == TrimSpace(doc0)
        category == TrimSpace(category0)
    IN  IF doc = << >> \/ category = << >>
        THEN UNCHANGED <<ncalls, recorded>>
        ELSE /\ ncalls' = Put(ncalls, category, Get(ncalls, category) + 1)
             /\ recorded' = recorded \cup SeqSet(words)

Training(doc, category) ==
    /\ alive /\ resp = NoResp /\ Accepted < MaxCalls
    /\ LET after == TrainingData(Words, Categorys, doc, category) IN
         /\ Words' = after[1]
         /\ Categorys' = after[2]
    /\ Note(doc, category, Segment(TrimSpace(doc)))
    /\ resp' = [op |-> "Training", doc |-> doc, category |-> category]
    /\ UNCHANGED <<tasks, issued, saver, handed, alive>>

TrainingwithSlash(doc, category) ==
    /\ alive /\ resp = NoResp /\ Accepted < MaxCalls
    /\ LET after == TrainingwithSlashData(Words, Categorys, doc, category) IN
         /\ Words' = after[1]
         /\ Categorys' = after[2]
    /\ Note(doc, category, SplitSlash(TrimSpace(doc)))
    /\ resp' = [op |-> "TrainingwithSlash", doc |-> doc, category |-> category]
    /\ UNCHANGED <<tasks, issued, saver, handed, alive>>

Score(word, category) ==
    /\ alive /\ resp = NoResp
    /\ \E list \in ScoreLists(word, category) :
         resp' = [op |-> "Score", word |-> word, category |-> category, val |-> list]
    /\ UNCHANGED <<Words, Categorys, ncalls, recorded, tasks, issued, saver, handed, alive>>

Categorize(doc) ==
    /\ alive /\ resp = NoResp
    /\ \E list \in CategorizeLists(doc) :
         resp' = [op |-> "Categorize", doc |-> doc, val |-> list]
    /\ UNCHANGED <<Words, Categorys, ncalls, recorded, tasks, issued, saver, handed, alive>>

\* wordWeightProb applied on its own, as docProb and Score apply it.
WordWeightProb(word, category, weight, assumedprob) ==
    /\ alive /\ resp = NoResp
    /\ resp' = [op |-> "wordWeightProb", word |-> word, category |-> category,
                weight |-> weight, assumedprob |-> assumedprob,
                raw |-> wordProb(word, category),
                val |-> wordWeightProb(word, category, weight, assumedprob)]
    /\ UNCHANGED <<Words, Categorys, ncalls, recorded, tasks, issued, saver, handed, alive>>

\* The caller takes the result; the next call may be made.
Respond ==
    /\ resp /= NoResp
    /\ resp' = NoResp
    /\ UNCHANGED <<Words, Categorys, ncalls, recorded, tasks, issued, saver, handed, alive>>

\* NewClassifier on an empty store: both maps are empty (lines 40-42).
Init ==
    /\ Words = EmptyMap
    /\ Categorys = EmptyMap
    /\ resp = NoResp
    /\ ncalls = EmptyMap
    /\ recorded = {}
    /\ tasks = [g \in Goroutines |-> NoTask]
    /\ issued = << >>
    /\ saver = "sleep"
    /\ handed = << >>
    /\ alive = TRUE

Next ==
    \/ \E doc \in Docs, category \in Cats : Training(doc, category)
    \/ \E doc \in Docs, category \in Cats : TrainingwithSlash(doc, category)
    \/ \E word \in Terms, category \in QueryCats : Score(word, category)
    \/ \E doc \in Docs : Categorize(doc)
    \/ Respond

Spec == Init /\ [][Next]_vars


\* ------------------------------------------------------------------ the spam scenario

BuyCheapPills == <<"b", "u", "y", " ", "c", "h", "e", "a", "p", " ", "p", "i", "l", "l", "s">>
MeetingAgendaAttached == <<"m", "e", "e", "t", "i", "n", "g", " ", "a", "g", "e", "n", "d", "a", " ", "a", "t", "t", "a", "c", "h", "e", "d">>
BuyPills == <<"b", "u", "y", " ", "p", "i", "l", "l", "s">>
Spam == <<"s", "p", "a", "m">>
Ham == <<"h", "a", "m">>
Buy == <<"b", "u", "y">>
Cheap == <<"c", "h", "e", "a", "p">>
Pills == <<"p", "i", "l", "l", "s">>
Meeting == <<"m", "e", "e", "t", "i", "n", "g">>
Agenda == <<"a", "g", "e", "n", "d", "a">>
Attached == <<"a", "t", "t", "a", "c", "h", "e", "d">>

SpamDocs == {BuyCheapPills, MeetingAgendaAttached, BuyPills}
SpamCats == {Spam, Ham}

NextSpam ==
    \/ \E doc \in SpamDocs, category \in SpamCats : Training(doc, category)
    \/ \E doc \in SpamDocs : Categorize(doc)
    \/ Respond

SpecSpam == Init /\ [][NextSpam]_vars

\* ------------------------------------------------------------------ the estimator on its own

NextProb ==
    \/ \E doc \in Docs, category \in Cats : Training(doc, category)
    \/ \E doc \in Docs, category \in Cats : TrainingwithSlash(doc, category)
    \/ \E word \in Terms, category \in TrimmedCats, weight \in Weights, assumedprob \in Probs :
         WordWeightProb(word, category, weight, assumedprob)
    \/ Respond

SpecProb == Init /\ [][NextProb]_vars


\* ------------------------------------------------------------------ the concurrent interface

\* Requests arrive on goroutines of their own and the autosave loop of NewClassifier
\* runs beside them; nothing in classifier.go takes a lock.  A step is one access to
\* a map: Words[word][category]++ and Categorys[category]++ each read the count and
\* then store it back, and other goroutines run in between.
ConcDocs == { << >>, <<"c", "d">>, <<"a", "b", " ", "c", "d">> }
ConcCats == { <<"x">> }

\* Where Training goes after a word: to the next word, or to line 117.
AfterWord(task, rest, seen) ==
    [pc |-> IF rest = << >> THEN "category" ELSE "range",
     words |-> rest, fwords |-> seen, category |-> task.category, num |-> 0]

\* Lines 93-104: the guard, the segmentation; an empty argument returns at once.
Begin(g, doc0, category0) ==
    /\ alive
    /\ tasks[g] = NoTask
    /\ Len(issued) < MaxConcCalls
    /\ LET doc == TrimSpace(doc0)
           category == TrimSpace(category0)
       IN  IF Rejected(doc, category)
           THEN UNCHANGED <<tasks, issued>>
           ELSE /\ tasks' = [tasks EXCEPT ![g] =
                       AfterWord([category |-> category], Segment(doc), {})]
                /\ issued' = Append(issued, [doc |-> doc0, category |-> category0])
    /\ UNCHANGED <<Words, Categorys, resp, ncalls, recorded, saver, handed, alive>>

\* Lines 105-113, up to the read of Words[word][category].
LoadWord(g) ==
    /\ alive /\ tasks[g].pc = "range"
    /\ LET task == tasks[g]
           word == Head(task.words)
       IN  IF word \in task.fwords
           THEN /\ tasks' = [tasks EXCEPT ![g] = AfterWord(task, Tail(task.words), task.fwords)]
                /\ UNCHANGED Words
           ELSE /\ Words' = IF word \in DOMAIN Words THEN Words ELSE Put(Words, word, EmptyMap)
                /\ tasks' = [tasks EXCEPT ![g] =
                       [task EXCEPT !.pc = "store",
                                    !.fwords = task.fwords \cup {word},
                                    !.num = Count(Words, word, task.category)]]
    /\ UNCHANGED <<Categorys, resp, ncalls, recorded, issued, saver, handed, alive>>

\* Line 113, the store of the incremented count.
StoreWord(g) ==
    /\ alive /\ tasks[g].pc = "store"
    /\ LET task == tasks[g]
           word == Head(task.words)
       IN  /\ Words' = Put(Words, word, Put(Words[word], task.category, task.num + 1))
           /\ tasks' = [tasks EXCEPT ![g] = AfterWord(task, Tail(task.words), task.fwords)]
    /\ UNCHANGED <<Categorys, resp, ncalls, recorded, issued, saver, handed, alive>>

\* Line 117, the read of Categorys[category].
LoadCategory(g) ==
    /\ alive /\ tasks[g].pc = "category"
    /\ tasks' = [tasks EXCEPT ![g] =
           [tasks[g] EXCEPT !.pc = "categorystore",
                            !.num = Get(Categorys, tasks[g].category)]]
    /\ UNCHANGED <<Words, Categorys, resp, ncalls, recorded, issued, saver, handed, alive>>

\* Line 117, the store; the call returns.
StoreCategory(g) ==
    /\ alive /\ tasks[g].pc = "categorystore"
    /\ Categorys' = Put(Categorys, tasks[g].category, tasks[g].num + 1)
    /\ tasks' = [tasks EXCEPT ![g] = NoTask]
    /\ UNCHANGED <<Words, resp, ncalls, recorded, issued, saver, handed, alive>>

\* Two goroutines inside a map update at once: the Go runtime may end the process
\* ("fatal error: concurrent map writes").
MapFault ==
    /\ alive
    /\ \E g, h \in Goroutines :
         /\ g /= h
         /\ tasks[g].pc \in {"store", "categorystore"}
         /\ tasks[h].pc \in {"store", "categorystore"}
    /\ alive' = FALSE
    /\ UNCHANGED <<Words, Categorys, resp, ncalls, recorded, tasks, issued, saver, handed>>

\* Export, lines 235-237: the data is handed to storage.Save as it is now; err is
\* what Save returns.
Export(err) ==
    handed' = Append(handed, [Words |-> Words, Categorys |-> Categorys, err |-> err])

\* The loop with log.Fatalln for runtime.Goexit: a failed save ends the process.
AutosaveFatal(err) ==
    /\ alive /\ saver = "sleep"
    /\ Len(handed) < MaxExports
    /\ Export(err)
    /\ saver' = IF err THEN "exited" ELSE "sleep"
    /\ alive' = ~err
    /\ UNCHANGED <<Words, Categorys, resp, ncalls, recorded, tasks, issued>>

\* The autosave loop, lines 63-74: after the sleep, Export; on an error the
\* goroutine ends itself (runtime.Goexit), otherwise it sleeps again.
Autosave(err) ==
    /\ alive /\ saver = "sleep"
    /\ Len(handed) < MaxExports
    /\ Export(err)
    /\ saver' = IF err THEN "exited" ELSE "sleep"
    /\ UNCHANGED <<Words, Categorys, resp, ncalls, recorded, tasks, issued, alive>>

NextConc ==
    \/ \E g \in Goroutines, doc \in ConcDocs, category \in ConcCats : Begin(g, doc, category)
    \/ \E g \in Goroutines : LoadWord(g)
    \/ \E g \in Goroutines : StoreWord(g)
    \/ \E g \in Goroutines : LoadCategory(g)
    \/ \E g \in Goroutines : StoreCategory(g)
    \/ MapFault
    \/ \E err \in BOOLEAN : Autosave(err)

SpecConc == Init /\ [][NextConc]_vars

\* The two maps after the calls of the sequence calls have run one after another.
RECURSIVE RunInTurn(_)
RunInTurn(calls) ==
    IF calls = << >> THEN <<EmptyMap, EmptyMap>>
    ELSE LET before == RunInTurn(SubSeq(calls, 1, Len(calls) - 1))
             call == calls[Len(calls)]
         IN  TrainingData(before[1], before[2], call.doc, call.category)

\* The subsequence of calls at the indices in keep.
RECURSIVE Pick(_, _)
Pick(calls, keep) ==
    IF calls = << >> THEN << >>
    ELSE LET front == Pick(SubSeq(calls, 1, Len(calls) - 1), keep)
         IN  IF Len(calls) \in keep THEN Append(front, calls[Len(calls)]) ELSE front

\* ------------------------------------------------------------------ properties

X == <<"x">>
Y == <<"y">>
A == <<"a">>
B == <<"b">>
AB == <<"a", "b">>
CD == <<"c", "d">>
ASlashBSlashA == <<"a", "/", "b", "/", "a">>

IsTraining(r) == r.op \in {"Training", "TrainingwithSlash"}

\* The words the call r tokenises its document into.
WordsOf(r) ==
    IF r.op = "Training" THEN Segment(TrimSpace(r.doc)) ELSE SplitSlash(TrimSpace(r.doc))

IsAccepted(r) == TrimSpace(r.doc) /= << >> /\ TrimSpace(r.category) /= << >>

\* C1: from the empty model, the Category Table holds, for every category, the
\* number of training calls made with that trimmed category and a non-empty
\* trimmed document (repeated documents and documents without terms count too);
\* a category no such call was made with is absent from the table.
C1_CategoryCountsCalls ==
    \A c \in TrimmedCats \cup DOMAIN Categorys \cup DOMAIN ncalls :
        IF Get(ncalls, c) = 0
        THEN c \notin DOMAIN Categorys
        ELSE c \in DOMAIN Categorys /\ Categorys[c] = ncalls[c]

\* Two calls under "x" whose documents gave no term at all, none under "y".
C1_Witness ==
    /\ Get(Categorys, X) = 2
    /\ Words = EmptyMap
    /\ Y \notin DOMAIN Categorys
    /\ resp /= NoResp /\ IsTraining(resp) /\ resp.op = "Training"

\* C2: one accepted training call adds exactly 1 to the count of each distinct
\* term of its document under its category, however often the term occurs, and
\* leaves every other term count alone; TrainingwithSlash("a/b/a", "x") on the
\* empty model leaves "a" and "b" with count 1 under "x".
C2_OneIncrementPerTerm ==
    [][(resp = NoResp /\ resp' /= NoResp /\ IsTraining(resp') /\ IsAccepted(resp')) =>
         /\ \A t \in Terms \cup DOMAIN Words \cup DOMAIN Words' :
              \A c \in TrimmedCats :
                Count(Words', t, c) =
                  Count(Words, t, c)
                    + (IF c = TrimSpace(resp'.category) /\ t \in SeqSet(WordsOf(resp'))
                       THEN 1 ELSE 0)
         /\ \A t \in DOMAIN Words' : DOMAIN Words'[t] \subseteq TrimmedCats
         /\ (Words = EmptyMap /\ resp'.op = "TrainingwithSlash"
               /\ resp'.doc = ASlashBSlashA /\ resp'.category = X)
              => (DOMAIN Words' = {A, B} /\ Words'[A][X] = 1 /\ Words'[B][X] = 1)
      ]_vars

C2_Witness ==
    /\ resp /= NoResp /\ resp.op = "TrainingwithSlash"
    /\ resp.doc = ASlashBSlashA /\ resp.category = X
    /\ DOMAIN Words = {A, B}
    /\ Words[A] = [c \in {X} |-> 1]
    /\ Words[B] = [c \in {X} |-> 1]

\* C6: a training call whose document or category is empty after trimming
\* changes neither table, and returns normally.
C6_EmptyInputIsNoOp ==
    [][(resp = NoResp /\ resp' /= NoResp /\ IsTraining(resp') /\ ~IsAccepted(resp')) =>
         (Words' = Words /\ Categorys' = Categorys /\ alive')]_vars

\* A call with a document but a blank category has returned, on a trained model.
C6_Witness ==
    /\ resp /= NoResp /\ IsTraining(resp)
    /\ TrimSpace(resp.doc) /= << >> /\ resp.category = <<" ">>
    /\ Words /= EmptyMap

\* C8: Score of a term no training call has recorded returns the empty list,
\* whatever the category argument.
C8_UnseenTermScoresEmpty ==
    (resp /= NoResp /\ resp.op = "Score" /\ resp.word \notin recorded) => resp.val = << >>

\* Such a Score has returned for a category the Category Table holds, while other
\* terms are recorded.
C8_Witness ==
    /\ resp /= NoResp /\ resp.op = "Score"
    /\ resp.word \notin recorded /\ resp.word /= Unseen
    /\ resp.category \in DOMAIN Categorys
    /\ recorded /= {}
    /\ resp.val = << >>

\* C10: every entry of the Term Frequency Table is at least 1 and at most the
\* count of its category; so no inner map is empty, every category of a term is
\* in the Category Table, and wordProb is a number in [0, 1].
C10_TermCountWithinCategoryCount ==
    /\ \A t \in DOMAIN Words :
         /\ DOMAIN Words[t] /= {}
         /\ \A c \in DOMAIN Words[t] :
              /\ c \in DOMAIN Categorys
              /\ 1 <= Words[t][c]
              /\ Words[t][c] <= Categorys[c]
    /\ \A t \in Terms, c \in QueryCats :
         /\ IsNum(wordProb(t, c))
         /\ FLeq(Num(0), wordProb(t, c))
         /\ FLeq(wordProb(t, c), Num(1))

\* A term in every document of its category, and one in only some of them.
C10_Witness ==
    /\ Get(Categorys, X) = 2
    /\ Count(Words, AB, X) = 2
    /\ Count(Words, CD, X) = 1

\* The model after Training("buy cheap pills", "spam") and Training("meeting agenda
\* attached", "ham") on the empty model.
SpamModel ==
    /\ DOMAIN Categorys = {Spam, Ham}
    /\ Categorys[Spam] = 1 /\ Categorys[Ham] = 1
    /\ DOMAIN Words = {Buy, Cheap, Pills, Meeting, Agenda, Attached}
    /\ \A w \in {Buy, Cheap, Pills} : Words[w] = [c \in {Spam} |-> 1]
    /\ \A w \in {Meeting, Agenda, Attached} : Words[w] = [c \in {Ham} |-> 1]

\* C7: after Training("buy cheap pills", "spam") and Training("meeting agenda
\* attached", "ham") on the empty model, Categorize("buy pills") lists "spam"
\* (3/4 * 3/4 * 1/2) before "ham" (1/4 * 1/4 * 1/2).
C7_SpamRanksAboveHam ==
    (resp /= NoResp /\ resp.op = "Categorize" /\ resp.doc = BuyPills /\ SpamModel) =>
        resp.val = << <<Spam, <<9, 32>> >>, <<Ham, <<1, 32>> >> >>

C7_Witness ==
    /\ resp /= NoResp /\ resp.op = "Categorize" /\ resp.doc = BuyPills
    /\ SpamModel
    /\ Len(resp.val) = 2 /\ resp.val[1][1] = Spam /\ resp.val[2][1] = Ham

\* C5: wordWeightProb is a number between assumedprob and the raw probability.
C5_WeightedProbBetweenPriorAndRaw ==
    (resp /= NoResp /\ resp.op = "wordWeightProb") =>
        /\ IsNum(resp.val)
        /\ IsNum(resp.raw)
        /\ \/ FLeq(resp.assumedprob, resp.val) /\ FLeq(resp.val, resp.raw)
           \/ FLeq(resp.raw, resp.val) /\ FLeq(resp.val, resp.assumedprob)

\* The same, for the calls in which the weight or the term's total count is not 0.
C5_BetweenUnlessZeroOverZero ==
    (resp /= NoResp /\ resp.op = "wordWeightProb"
        /\ (resp.weight /= Num(0) \/ resp.word \in DOMAIN Words)) =>
        /\ IsNum(resp.val)
        /\ IsNum(resp.raw)
        /\ \/ FLeq(resp.assumedprob, resp.val) /\ FLeq(resp.val, resp.raw)
           \/ FLeq(resp.raw, resp.val) /\ FLeq(resp.val, resp.assumedprob)


Quiet == \A g \in Goroutines : tasks[g] = NoTask

\* C3: when the concurrent Training calls have all returned, every count is what
\* the same calls leave when run one after another.
C3_NoLostIncrement ==
    (alive /\ Quiet) => <<Words, Categorys>> = RunInTurn(issued)

\* C4: every snapshot Export hands to storage is the model as it is between whole
\* Training calls: what some of the calls begun so far leave when run in turn.
C4_ExportAtCallBoundary ==
    \A i \in DOMAIN handed :
        \E keep \in SUBSET DOMAIN issued :
            <<handed[i].Words, handed[i].Categorys>> = RunInTurn(Pick(issued, keep))

Failed == \E i \in DOMAIN handed : handed[i].err

\* C9: a failed autosave ends the autosave loop and nothing else: the failing
\* step leaves the process running and the calls in progress and the model as they
\* were, no Export follows it, and a new Training call can still begin.
C9_FailedAutosaveStopsOnlyAutosave ==
    /\ [](Failed =>
            /\ saver = "exited"
            /\ \A i \in DOMAIN handed : handed[i].err => i = Len(handed)
            /\ (alive /\ Len(issued) < MaxConcCalls) =>
                  \A g \in Goroutines : tasks[g] = NoTask => ENABLED Begin(g, CD, X))
    /\ [][(~Failed /\ Failed') =>
            (alive' /\ tasks' = tasks /\ Words' = Words /\ Categorys' = Categorys)]_vars
    /\ [][Failed => (handed' = handed /\ saver' = saver)]_vars

\* The autosave failed on the empty model; a Training call made its updates after.
C9_Witness ==
    /\ Failed /\ saver = "exited" /\ alive
    /\ handed[Len(handed)].Words = EmptyMap
    /\ handed[Len(handed)].Categorys = EmptyMap
    /\ Quiet
    /\ Get(Categorys, X) = 1
    /\ Count(Words, CD, X) = 1

====
